---- MODULE Spec2Model ----
(***************************************************************************)
(* The fusion and phase core of canairy: readings are classified, forced   *)
(* by staleness, confirmed, scored into the HOPI composite and fed to the  *)
(* hysteretic phase controller.                                            *)
(*                                                                         *)
(* Encodings (TLA+ has integers only):                                     *)
(*   - a phase p is held as 2*p, so 2.5 is 5 and the order is kept;        *)
(*   - hopi, domain scores and confidence, which the code rounds to three  *)
(*     decimals, are held in thousandths; the unrounded values are exact   *)
(*     rationals over a fixed denominator;                                 *)
(*   - time is counted in ticks of 30 minutes.                             *)
(***************************************************************************)
EXTENDS Integers, Sequences, FiniteSets

VARIABLES
    now,                  \* datetime.utcnow(), in ticks
    driver,               \* which driver owns the PhaseManagerHOPI instance
    cycles,               \* evaluation cycles run so far
    confirmation_tracker, \* PhaseManagerHOPI.confirmation_tracker
    history,              \* HOPICalculator.history
    current_phase,        \* PhaseController.current_phase
    phase_history,        \* PhaseController.phase_history
    poll_history,         \* PhaseController.poll_history
    last_phase_change,    \* PhaseController.last_phase_change
    phase_table,          \* the keys of PhaseController.phases
    requests,             \* the /api/status requests in flight, by thread
    latest                \* the last cycle's inputs and outputs (latest_data)

vars == <<now, driver, cycles, confirmation_tracker, history, current_phase,
          phase_history, poll_history, last_phase_change, phase_table,
          requests, latest>>

-----------------------------------------------------------------------------
(* Arithmetic helpers *)

Min(a, b) == IF a <= b THEN a ELSE b

Max(a, b) == IF a >= b THEN a ELSE b

RECURSIVE GCD(_, _)
GCD(a, b) == IF b = 0 THEN a ELSE GCD(b, a % b)

RECURSIVE SumSeq(_)
SumSeq(s) == IF s = <<>> THEN 0 ELSE Head(s) + SumSeq(Tail(s))

Range(s) == {s[k] : k \in DOMAIN s}

\* n/d rounded to the nearest integer.  The code rounds a float: where the
\* exact value lies halfway, the float lies a hair above or below it and the
\* result follows the float; up says which side it fell.
RoundNearest(n, d, up) ==
    LET q == n \div d
        r == n % d
    IN  IF 2 * r < d THEN q
        ELSE IF 2 * r > d THEN q + 1
        ELSE IF up THEN q + 1 ELSE q

\* round(n/d, 3), in thousandths.
Round3(n, d, up) ==
    LET g == GCD(1000, d)
    IN  RoundNearest((1000 \div g) * n, d \div g, up)

\* Whether 1000 * n/d lies exactly halfway between two integers.
IsTie3(n, d) ==
    LET g == GCD(1000, d)
    IN  2 * (((1000 \div g) * n) % (d \div g)) = d \div g

-----------------------------------------------------------------------------
(* Time *)

TickSeconds == 30 * 60

Hours(h) == (h * 3600) \div TickSeconds

-----------------------------------------------------------------------------
(* HOPICalculator configuration.  Weights are held in quarters. *)

DomainOrder ==
    << "economy", "jobs_labor", "rights_governance", "security_infrastructure",
       "oil_axis", "ai_window", "global_conflict", "domestic_control", "cult" >>

domains ==
    [ economy |->
        [ weight |-> 4,
          indicators |-> << "Treasury", "GroceryCPI", "MarketVolatility",
                            "GDPGrowth", "MBridgeSettlements" >>,
          critical |-> { "MarketVolatility" } ],
      jobs_labor |->
        [ weight |-> 4,
          indicators |-> << "JoblessClaims", "StrikeTracker", "LuxuryCollapse" >>,
          critical |-> {} ],
      rights_governance |->
        [ weight |-> 4,
          indicators |-> << "LegiScan", "ACLEDProtests", "ICEDetention",
                            "TaiwanZone", "DoDAutonomy" >>,
          critical |-> { "TaiwanZone" } ],
      security_infrastructure |->
        [ weight |-> 5,
          indicators |-> << "CISACyber", "GridOutages", "WHODisease",
                            "HormuzRisk", "PharmacyShortage" >>,
          critical |-> {} ],
      oil_axis |->
        [ weight |-> 4,
          indicators |-> << "CREAOil", "MBridgeSettlements", "OFACDesignations",
                            "JODIOil" >>,
          critical |-> {} ],
      ai_window |->
        [ weight |-> 4,
          indicators |-> << "AILayoffs", "AIRansomware", "DeepfakeShocks",
                            "LaborDisplacement" >>,
          critical |-> { "DeepfakeShocks" } ],
      global_conflict |->
        [ weight |-> 6,
          indicators |-> << "GlobalConflict", "TaiwanPLA", "NATOReadiness",
                            "NuclearTests", "RussiaNATO", "DefenseSpending" >>,
          critical |-> { "NATOReadiness" } ],
      domestic_control |->
        [ weight |-> 5,
          indicators |-> << "DCControl", "GuardMetros", "ICEDetentions",
                            "DHSRemoval", "HillLegislation", "LibertyLitigation" >>,
          critical |-> { "GuardMetros", "DHSRemoval" } ],
      cult |->
        [ weight |-> 3,
          indicators |-> << "AGIMilestones", "SchoolClosures" >>,
          critical |-> {} ] ]

DomainNames == Range(DomainOrder)

\* cap_factor is held in halves.
pair_caps ==
    << [ pair |-> << "ICEDetention", "ICEDetentions" >>,
         domain |-> "domestic_control", cap_factor |-> 2 ],
       [ pair |-> << "MBridgeSettlements", "CREAOil" >>,
         domain |-> "oil_axis", cap_factor |-> 3 ],
       [ pair |-> << "TaiwanZone", "TaiwanPLA" >>,
         domain |-> "global_conflict", cap_factor |-> 4 ] >>

max_history == 10

\* The weights of _calculate_hopi, in quarters.
hopi_weights(d) ==
    CASE d = "global_conflict" -> 6
      [] d = "security_infrastructure" -> 5
      [] d = "domestic_control" -> 5
      [] OTHER -> 4

AllIndicators == UNION { Range(domains[d].indicators) : d \in DomainNames }

all_critical == UNION { domains[d].critical : d \in DomainNames }

\* Points are exact multiples of 1/PointDen: the quarter of the weights times
\* a factor that makes every pair-cap scaling cap/pair_total exact.
PointScale == 7 * 9 * 13

PointDen == 4 * PointScale

\* Domain scores are exact multiples of 1/ScoreDen: 7200 is a common multiple
\* of every domain's 2 * weight * N (in quarters).
NormLcm == 32 * 9 * 25

ScoreDen == PointScale * NormLcm

-----------------------------------------------------------------------------
(* HOPICalculator.  An indicator map is a function from the names present   *)
(* to records [color, value, source, ts, confirmed].                        *)

\* The points dict is keyed by name, so the last domain (in dict order) that
\* lists an indicator is the one whose weight and critical set stand.
OwnerOf ==
    [ i \in AllIndicators |->
        LET ks == { k \in DOMAIN DomainOrder :
                      i \in Range(domains[DomainOrder[k]].indicators) }
        IN  DomainOrder[CHOOSE k \in ks : \A j \in ks : j <= k] ]

\* _calculate_indicator_points scoring an unconfirmed red as an amber: the
\* variant C21 must tell from the code.
_calculate_indicator_points_confirmed(indicators) ==
    [ i \in (DOMAIN indicators) \cap AllIndicators |->
        LET d == domains[OwnerOf[i]]
            color == IF indicators[i].color = 2 /\ ~indicators[i].confirmed
                     THEN 1 ELSE indicators[i].color
        IN  color * d.weight * (IF i \in d.critical THEN 2 ELSE 1) * PointScale ]

_calculate_indicator_points(indicators) ==
    [ i \in (DOMAIN indicators) \cap AllIndicators |->
        LET d == domains[OwnerOf[i]]
        IN  indicators[i].color * d.weight
              * (IF i \in d.critical THEN 2 ELSE 1) * PointScale ]

\* PairCap taking the weight of the domain that lists the pair's first member:
\* the variant C13 must tell from the code.
PairCapOfFirst(rule) == domains[OwnerOf[rule.pair[1]]].weight * rule.cap_factor * PointScale

\* The cap of a rule, in 1/PointDen: red_value * cap_factor with
\* red_value = 2 * domain_weight.
PairCap(rule) == domains[rule.domain].weight * rule.cap_factor * PointScale

RECURSIVE ApplyPairCapsFrom(_, _, _)
ApplyPairCapsFrom(points, capped, k) ==
    IF k > Len(pair_caps) THEN capped
    ELSE LET rule == pair_caps[k]
             a == rule.pair[1]
             b == rule.pair[2]
         IN  IF {a, b} \subseteq DOMAIN points
             THEN LET pair_total == points[a] + points[b]
                      cap == PairCap(rule)
                  IN  IF pair_total > cap
                      THEN ApplyPairCapsFrom(points,
                             [capped EXCEPT ![a] = (points[a] * cap) \div pair_total,
                                            ![b] = (points[b] * cap) \div pair_total],
                             k + 1)
                      ELSE ApplyPairCapsFrom(points, capped, k + 1)
             ELSE ApplyPairCapsFrom(points, capped, k + 1)

_apply_pair_caps(points) == ApplyPairCapsFrom(points, points, 1)

PointsGet(points, i) == IF i \in DOMAIN points THEN points[i] ELSE 0

\* Domain scores in 1/ScoreDen.
_calculate_domain_scores(points) ==
    [ d \in DomainNames |->
        LET members == domains[d].indicators
            domain_points == SumSeq([k \in DOMAIN members |-> PointsGet(points, members[k])])
            n_indicators == Len(members)
        IN  IF n_indicators > 0
            THEN Min(ScoreDen,
                     domain_points * (NormLcm \div (2 * domains[d].weight * n_indicators)))
            ELSE 0 ]

TrendBonus == ScoreDen \div 10

\* _apply_trend_bonus comparing with the oldest poll held: the variant C26
\* must tell from the code.
_apply_trend_bonus_oldest(domain_scores, hist) ==
    IF Len(hist) < 2 THEN domain_scores
    ELSE LET old_poll == hist[1]
             current_poll == hist[Len(hist)]
             rising_count(d) ==
                 Cardinality({ i \in Range(domains[d].indicators) :
                                 /\ i \in DOMAIN current_poll
                                 /\ i \in DOMAIN old_poll
                                 /\ current_poll[i] > old_poll[i] })
         IN  [ d \in DomainNames |->
                 IF rising_count(d) >= 2
                 THEN Min(ScoreDen, domain_scores[d] + TrendBonus)
                 ELSE domain_scores[d] ]

\* _apply_trend_bonus adding the bonus without the min(1.0, ...): the variant
\* C14 must tell from the code.
_apply_trend_bonus_unbounded(domain_scores, hist) ==
    IF Len(hist) < 2 THEN domain_scores
    ELSE LET lookback == Min(3, Len(hist) - 1)
             old_poll == hist[Len(hist) - lookback]
             current_poll == hist[Len(hist)]
             rising_count(d) ==
                 Cardinality({ i \in Range(domains[d].indicators) :
                                 /\ i \in DOMAIN current_poll
                                 /\ i \in DOMAIN old_poll
                                 /\ current_poll[i] > old_poll[i] })
         IN  [ d \in DomainNames |->
                 IF rising_count(d) >= 2
                 THEN domain_scores[d] + TrendBonus
                 ELSE domain_scores[d] ]

\* hist is the history with the current poll already appended; its entries
\* are the polls' color maps.
_apply_trend_bonus(domain_scores, hist) ==
    IF Len(hist) < 2 THEN domain_scores
    ELSE LET lookback == Min(3, Len(hist) - 1)
             old_poll == hist[Len(hist) - lookback]
             current_poll == hist[Len(hist)]
             rising_count(d) ==
                 Cardinality({ i \in Range(domains[d].indicators) :
                                 /\ i \in DOMAIN current_poll
                                 /\ i \in DOMAIN old_poll
                                 /\ current_poll[i] > old_poll[i] })
         IN  [ d \in DomainNames |->
                 IF rising_count(d) >= 2
                 THEN Min(ScoreDen, domain_scores[d] + TrendBonus)
                 ELSE domain_scores[d] ]

\* The weighted mean as the fraction num/den.
_calculate_hopi(domain_scores) ==
    LET total_weighted ==
            SumSeq([k \in DOMAIN DomainOrder |->
                      domain_scores[DomainOrder[k]] * hopi_weights(DomainOrder[k])])
        total_weight ==
            SumSeq([k \in DOMAIN DomainOrder |-> hopi_weights(DomainOrder[k])])
    IN  IF total_weight > 0
        THEN [num |-> total_weighted, den |-> total_weight * ScoreDen]
        ELSE [num |-> 0, den |-> 1]

_count_reds(indicators) ==
    LET reds == { i \in DOMAIN indicators : indicators[i].color = 2 }
    IN  [ total |-> Cardinality(reds),
          critical |-> Cardinality(reds \cap all_critical),
          single_source |->
              Cardinality({ i \in reds : \/ ~indicators[i].confirmed
                                         \/ indicators[i].source = "mock" }) ]

\* _calculate_confidence without the final clamp: the variant C15 must tell
\* from the code.
_calculate_confidence_unclamped(indicators, stale_indicators) ==
    LET total_indicators == Cardinality(DOMAIN indicators)
        stale_count == Cardinality(stale_indicators)
        red_counts == _count_reds(indicators)
        total_reds == Max(1, red_counts.total)
        t == IF total_indicators > 0 THEN total_indicators ELSE 1
        s == IF total_indicators > 0 THEN stale_count ELSE 0
        den == 20 * t * total_reds
        num == den - 20 * s * total_reds - 3 * red_counts.single_source * t
    IN  [num |-> num, den |-> den]

\* C = 1 - stale/total - 0.15 * single_source_reds/total_reds, clamped to
\* [0, 1], as the fraction num/den.
_calculate_confidence(indicators, stale_indicators) ==
    LET total_indicators == Cardinality(DOMAIN indicators)
        stale_count == Cardinality(stale_indicators)
        red_counts == _count_reds(indicators)
        total_reds == Max(1, red_counts.total)
        t == IF total_indicators > 0 THEN total_indicators ELSE 1
        s == IF total_indicators > 0 THEN stale_count ELSE 0
        den == 20 * t * total_reds
        num == den - 20 * s * total_reds - 3 * red_counts.single_source * t
    IN  [num |-> Max(0, Min(den, num)), den |-> den]

_update_history(hist, indicators) ==
    LET appended == Append(hist, [i \in DOMAIN indicators |-> indicators[i].color])
    IN  IF Len(appended) > max_history THEN Tail(appended) ELSE appended

\* calculate, given the history already updated by _update_history.  ties
\* tells where the float lands when hopi or confidence is exactly halfway
\* between two thousandths; no domain score of this configuration ever is.
calculate(indicators, stale_indicators, hist, ties) ==
    LET indicator_points == _apply_pair_caps(_calculate_indicator_points(indicators))
        domain_scores == _apply_trend_bonus(_calculate_domain_scores(indicator_points), hist)
        hopi == _calculate_hopi(domain_scores)
        confidence == _calculate_confidence(indicators, stale_indicators)
        red_counts == _count_reds(indicators)
    IN  [ hopi |-> Round3(hopi.num, hopi.den, ties.hopi),
          confidence |-> Round3(confidence.num, confidence.den, ties.confidence),
          domain_scores |-> [d \in DomainNames |-> Round3(domain_scores[d], ScoreDen, FALSE)],
          total_reds |-> red_counts.total,
          critical_reds |-> red_counts.critical,
          single_source_reds |-> red_counts.single_source,
          stale_count |-> Cardinality(stale_indicators),
          halfway |-> [ hopi |-> IsTie3(hopi.num, hopi.den),
                        confidence |-> IsTie3(confidence.num, confidence.den) ] ]

-----------------------------------------------------------------------------
(* StaleDataHandler.  A reading is None or a record [value, ts, source];    *)
(* ts is <<tick>> for a timestamp, or NoTimestamp when the key is absent.   *)

None == [none |-> TRUE]

NoTimestamp == << >>

amber_hours == 48

red_hours == 168

\* The metadata check_staleness leaves on a reading that is not None.
check_staleness(reading, t) ==
    IF reading.ts = NoTimestamp
    THEN [stale |-> TRUE, stale_reason |-> "no_timestamp", force_level |-> "red"]
    ELSE LET age == t - reading.ts[1]
         IN  IF age >= Hours(red_hours)
             THEN [stale |-> TRUE, stale_reason |-> "stale>7d", force_level |-> "red"]
             ELSE IF age >= Hours(amber_hours)
             THEN [stale |-> TRUE, stale_reason |-> "stale>48h", force_level |-> "amber"]
             ELSE [stale |-> FALSE, stale_reason |-> "none", force_level |-> "none"]

apply_stale_level(threat_level, metadata) ==
    IF metadata.stale /\ metadata.force_level # "none"
    THEN metadata.force_level
    ELSE threat_level

-----------------------------------------------------------------------------
(* PhaseManagerHOPI *)

confirmation_polls == 2

critical_indicators ==
    { "MarketVolatility", "DeepfakeShocks", "TaiwanZone",
      "NATOReadiness", "GuardMetros", "DHSRemoval" }

color_map(level) ==
    CASE level = "green" -> 0
      [] level = "amber" -> 1
      [] level = "red" -> 2
      [] OTHER -> 0

_prepare_indicators(readings, threat_levels) ==
    [ name \in { n \in DOMAIN readings : readings[n] # None } |->
        [ color |-> color_map(IF name \in DOMAIN threat_levels
                              THEN threat_levels[name] ELSE "unknown"),
          value |-> readings[name].value,
          source |-> readings[name].source,
          ts |-> readings[name].ts,
          confirmed |-> TRUE ] ]

\* staleness.get('is_stale', False): check_staleness hands back the reading,
\* whose keys are value, timestamp, collector and metadata; the stale flag is
\* under metadata, so the lookup falls to its default.
IsStaleKey(reading, t) ==
    LET staleness == [value |-> reading.value, ts |-> reading.ts,
                      metadata |-> check_staleness(reading, t)]
    IN  IF "is_stale" \in DOMAIN staleness THEN staleness["is_stale"] ELSE FALSE

_check_stale_data(readings, t) ==
    { name \in DOMAIN readings :
        \/ readings[name] = None
        \/ (readings[name] # None /\ IsStaleKey(readings[name], t)) }

\* One stale indicator's record after forcing.  A timestamp of None raises in
\* the try block and the bare except leaves the record as it was.
ForceStale(indicator, t) ==
    IF indicator.ts = NoTimestamp THEN indicator
    ELSE LET age == t - indicator.ts[1]
         IN  IF age > Hours(168) THEN [indicator EXCEPT !.color = 2]
             ELSE IF age > Hours(48)
             THEN IF indicator.color < 1 THEN [indicator EXCEPT !.color = 1]
                  ELSE indicator
             ELSE indicator

_apply_stale_forcing(indicators, stale_indicators, t) ==
    [ name \in DOMAIN indicators |->
        IF name \in stale_indicators
        THEN ForceStale(indicators[name], t)
        ELSE indicators[name] ]

ConfirmationWindow == 3600 \div TickSeconds

\* The tracker entry of a non-critical red after this cycle; the defaultdict
\* makes a missing entry one of count 0.
TrackRed(tracker, name, t) ==
    LET entry == IF name \in DOMAIN tracker THEN tracker[name]
                 ELSE [count |-> 0, first_seen |-> t]
    IN  IF entry.count = 0 THEN [count |-> 1, first_seen |-> t]
        ELSE IF t - entry.first_seen < ConfirmationWindow
        THEN [count |-> entry.count + 1, first_seen |-> entry.first_seen]
        ELSE [count |-> 1, first_seen |-> t]

\* TrackerAfter keeping the entry of an indicator that is no longer red: the
\* variant C12 must tell from the code.
TrackerAfterKept(indicators, tracker, t) ==
    LET tracked_reds == { n \in DOMAIN indicators :
                            indicators[n].color = 2 /\ n \notin critical_indicators }
        keys == (DOMAIN tracker) \cup tracked_reds
    IN  [ n \in keys |-> IF n \in tracked_reds THEN TrackRed(tracker, n, t)
                         ELSE tracker[n] ]

\* The tracker after _apply_confirmation_rules.
TrackerAfter(indicators, tracker, t) ==
    LET tracked_reds == { n \in DOMAIN indicators :
                            indicators[n].color = 2 /\ n \notin critical_indicators }
        cleared == { n \in DOMAIN indicators : indicators[n].color # 2 }
        keys == ((DOMAIN tracker) \ cleared) \cup tracked_reds
    IN  [ n \in keys |-> IF n \in tracked_reds THEN TrackRed(tracker, n, t)
                         ELSE tracker[n] ]

\* _apply_confirmation_rules putting critical indicators through the
\* confirmation delay: the variant C11 must tell from the code.
_apply_confirmation_rules_no_skip(indicators, tracker, t) ==
    [ name \in DOMAIN indicators |->
        IF indicators[name].color # 2 THEN indicators[name]
        ELSE LET entry == TrackRed(tracker, name, t)
                 first == (name \notin DOMAIN tracker) \/ tracker[name].count = 0
                 within == ~first /\ t - tracker[name].first_seen < ConfirmationWindow
             IN  [indicators[name] EXCEPT
                    !.confirmed = within /\ entry.count >= confirmation_polls] ]

\* The indicators after _apply_confirmation_rules.
_apply_confirmation_rules(indicators, tracker, t) ==
    [ name \in DOMAIN indicators |->
        IF indicators[name].color # 2 THEN indicators[name]
        ELSE IF name \in critical_indicators
        THEN [indicators[name] EXCEPT !.confirmed = TRUE]
        ELSE LET entry == TrackRed(tracker, name, t)
                 first == (name \notin DOMAIN tracker) \/ tracker[name].count = 0
                 within == ~first /\ t - tracker[name].first_seen < ConfirmationWindow
             IN  [indicators[name] EXCEPT
                    !.confirmed = within /\ entry.count >= confirmation_polls] ]

-----------------------------------------------------------------------------
(* PhaseController.  Phases are held doubled: 0, 2, 4, 5 (2.5), 6, ... 18.  *)

\* hopi_range of each phase, in thousandths.
phases ==
    [ p \in {0, 2, 4, 5, 6, 8, 10, 12, 14, 16, 18} |->
        CASE p = 0 -> [hopi_range |-> <<0, 100>>]
          [] p = 2 -> [hopi_range |-> <<100, 200>>]
          [] p = 4 -> [hopi_range |-> <<200, 300>>]
          [] p = 5 -> [hopi_range |-> <<300, 350>>]
          [] p = 6 -> [hopi_range |-> <<350, 450>>]
          [] p = 8 -> [hopi_range |-> <<450, 550>>]
          [] p = 10 -> [hopi_range |-> <<550, 650>>]
          [] p = 12 -> [hopi_range |-> <<650, 750>>]
          [] p = 14 -> [hopi_range |-> <<750, 850>>]
          [] p = 16 -> [hopi_range |-> <<850, 950>>]
          [] p = 18 -> [hopi_range |-> <<950, 1000>>] ]

\* window_hours of the Market+Deepfake rule.
window_hours == 3

\* extra is TRUE for the rule that carries an extra_condition.
critical_rules ==
    << [ conditions |-> {"MarketVolatility", "DeepfakeShocks"},
         min_phase |-> 14, extra |-> FALSE, extra_phase |-> 0 ],
       [ conditions |-> {"NATOReadiness"},
         min_phase |-> 12, extra |-> TRUE, extra_phase |-> 2 ],
       [ conditions |-> {"GuardMetros"},
         min_phase |-> 10, extra |-> FALSE, extra_phase |-> 0 ],
       [ conditions |-> {"DHSRemoval"},
         min_phase |-> 10, extra |-> FALSE, extra_phase |-> 0 ] >>

\* lambda ind: ind.get('RussiaNATO', {}).get('value', 0) >= 75
extra_condition(indicators) ==
    (IF "RussiaNATO" \in DOMAIN indicators THEN indicators["RussiaNATO"].value ELSE 0) >= 75

Colors(indicators) == [i \in DOMAIN indicators |-> indicators[i].color]

\* colors maps each indicator present to its color.
_determine_target_phase(hopi, domain_scores, colors) ==
    LET high_domains == Cardinality({ d \in DOMAIN domain_scores : domain_scores[d] >= 600 })
        amber_count == Cardinality({ i \in DOMAIN colors : colors[i] = 1 })
        red_count == Cardinality({ i \in DOMAIN colors : colors[i] = 2 })
    IN  IF hopi < 100 /\ amber_count = 0 THEN 0
        ELSE IF hopi < 200 \/ amber_count >= 1 THEN 2
        ELSE IF hopi < 300 \/ amber_count >= 2 THEN 4
        ELSE IF hopi < 350 THEN 5
        ELSE IF hopi < 450 \/ red_count >= 1 THEN 6
        ELSE IF hopi < 550 /\ high_domains >= 1 THEN 8
        ELSE IF hopi < 650 /\ high_domains >= 2 THEN 10
        ELSE IF hopi < 750 /\ high_domains >= 2 THEN 12
        ELSE IF hopi < 850 /\ high_domains >= 3 THEN 14
        ELSE IF hopi < 950 /\ high_domains >= 4 THEN 16
        ELSE 18

PollTarget(poll) == _determine_target_phase(poll.hopi, poll.domain_scores, poll.indicators)

\* _apply_hysteresis escalating on the first poll at a higher target: the
\* variant C2 must tell from the code.
_apply_hysteresis_at_once(target_phase, hopi_result, polls, current, last_change, t) ==
    IF target_phase > current
    THEN target_phase
    ELSE IF target_phase < current
    THEN IF t - last_change < Hours(72) THEN current
         ELSE IF hopi_result.total_reds > 0 THEN current
         ELSE IF /\ Len(polls) >= 3
                 /\ \A k \in (Len(polls) - 2)..Len(polls) :
                        polls[k].hopi <= phases[target_phase].hopi_range[2]
         THEN target_phase
         ELSE current
    ELSE current

\* _apply_hysteresis de-escalating on three polls whatever their scores: the
\* variant C23 must tell from the code.
_apply_hysteresis_any_score(target_phase, hopi_result, polls, current, last_change, t) ==
    IF target_phase > current
    THEN IF Len(polls) >= 2 /\ PollTarget(polls[Len(polls) - 1]) >= target_phase
         THEN target_phase
         ELSE current
    ELSE IF target_phase < current
    THEN IF t - last_change < Hours(72) THEN current
         ELSE IF hopi_result.total_reds > 0 THEN current
         ELSE IF Len(polls) >= 3
         THEN target_phase
         ELSE current
    ELSE current

\* _apply_hysteresis de-escalating with reds active: the variant C3 must tell
\* from the code.
_apply_hysteresis_despite_reds(target_phase, hopi_result, polls, current, last_change, t) ==
    IF target_phase > current
    THEN IF Len(polls) >= 2 /\ PollTarget(polls[Len(polls) - 1]) >= target_phase
         THEN target_phase
         ELSE current
    ELSE IF target_phase < current
    THEN IF t - last_change < Hours(72) THEN current
         ELSE IF /\ Len(polls) >= 3
                 /\ \A k \in (Len(polls) - 2)..Len(polls) :
                        polls[k].hopi <= phases[target_phase].hopi_range[2]
         THEN target_phase
         ELSE current
    ELSE current

\* polls is poll_history with the current poll already appended.
_apply_hysteresis(target_phase, hopi_result, polls, current, last_change, t) ==
    IF target_phase > current
    THEN IF Len(polls) >= 2 /\ PollTarget(polls[Len(polls) - 1]) >= target_phase
         THEN target_phase
         ELSE current
    ELSE IF target_phase < current
    THEN IF t - last_change < Hours(72) THEN current
         ELSE IF hopi_result.total_reds > 0 THEN current
         ELSE IF /\ Len(polls) >= 3
                 /\ \A k \in (Len(polls) - 2)..Len(polls) :
                        polls[k].hopi <= phases[target_phase].hopi_range[2]
         THEN target_phase
         ELSE current
    ELSE current

RuleMet(rule, indicators) ==
    \A c \in rule.conditions : c \in DOMAIN indicators /\ indicators[c].color = 2

\* RuleMinPhase without the extra_condition step: the variant C5 must tell
\* from the code.
RuleMinPhaseNoExtra(rule, indicators) == rule.min_phase

RuleMinPhase(rule, indicators) ==
    rule.min_phase
      + (IF rule.extra /\ extra_condition(indicators) THEN rule.extra_phase ELSE 0)

RECURSIVE CriticalJumpsFrom(_, _, _)
CriticalJumpsFrom(indicators, max_critical_phase, k) ==
    IF k > Len(critical_rules) THEN max_critical_phase
    ELSE IF RuleMet(critical_rules[k], indicators)
    THEN CriticalJumpsFrom(indicators,
             Max(max_critical_phase, RuleMinPhase(critical_rules[k], indicators)), k + 1)
    ELSE CriticalJumpsFrom(indicators, max_critical_phase, k + 1)

_check_critical_jumps(indicators) == CriticalJumpsFrom(indicators, 0, 1)

\* update without its confidence gate: the variant C4 must tell from the code.
ConfidenceGateOff(new_phase, hopi_result) == new_phase

\* The confidence gate of update.
ConfidenceGate(new_phase, hopi_result) ==
    IF hopi_result.confidence < 600 /\ new_phase > 6 /\ hopi_result.critical_reds = 0
    THEN Min(new_phase, 6)
    ELSE new_phase

PollHistoryLen == 10

PhaseHistoryLen == 100

\* deque.append without a maxlen: the variant C27 must tell from the code.
DequeAppendUnbounded(q, x, n) == Append(q, x)

\* deque(maxlen = n).append
DequeAppend(q, x, n) ==
    IF Len(q) >= n THEN Append(Tail(q), x) ELSE Append(q, x)

\* Whether _apply_hysteresis reaches self.phases[target_phase]: the target
\* is lower, 72 hours have passed, nothing is red and three polls are held.
ReadsBand(target_phase, hopi_result, polls, current, last_change, t) ==
    /\ target_phase < current
    /\ t - last_change >= Hours(72)
    /\ hopi_result.total_reds = 0
    /\ Len(polls) >= 3

\* update writing last_phase_change on every call: the variant C25 must tell
\* from the code.
update_always_stamped(pc, hopi_result, indicators, t) ==
    LET polls == DequeAppend(pc.poll_history,
                             [ timestamp |-> t,
                               hopi |-> hopi_result.hopi,
                               domain_scores |-> hopi_result.domain_scores,
                               indicators |-> Colors(indicators) ],
                             PollHistoryLen)
        target_phase == _determine_target_phase(hopi_result.hopi,
                            hopi_result.domain_scores, Colors(indicators))
        hysteresis == _apply_hysteresis(target_phase, hopi_result, polls,
                          pc.current_phase, pc.last_phase_change, t)
        critical_phase == _check_critical_jumps(indicators)
        jumped == IF critical_phase > hysteresis THEN critical_phase ELSE hysteresis
        new_phase == ConfidenceGate(jumped, hopi_result)
        phase_changed == new_phase # pc.current_phase
        held == [ phase |-> pc.current_phase,
                  changed |-> FALSE,
                  target_phase |-> target_phase,
                  hysteresis_phase |-> pc.current_phase,
                  hysteresis_active |-> FALSE,
                  critical_phase |-> 0,
                  critical_active |-> FALSE,
                  phase_info |-> pc.current_phase,
                  error |-> "KeyError" ]
    IN  IF /\ ReadsBand(target_phase, hopi_result, polls,
                        pc.current_phase, pc.last_phase_change, t)
           /\ target_phase \notin pc.phase_table
        THEN [ current_phase |-> pc.current_phase,
               poll_history |-> polls,
               phase_history |-> pc.phase_history,
               last_phase_change |-> pc.last_phase_change,
               result |-> held ]
        ELSE
        [ current_phase |-> new_phase,
          poll_history |-> polls,
          phase_history |->
              IF phase_changed
              THEN DequeAppend(pc.phase_history,
                       [ timestamp |-> t,
                         from_phase |-> pc.current_phase,
                         to_phase |-> new_phase,
                         direction |-> IF new_phase > pc.current_phase
                                       THEN "up" ELSE "down" ],
                       PhaseHistoryLen)
              ELSE pc.phase_history,
          last_phase_change |-> t,
          result |-> [ phase |-> new_phase,
                       changed |-> phase_changed,
                       target_phase |-> target_phase,
                       hysteresis_phase |-> hysteresis,
                       hysteresis_active |-> target_phase # new_phase,
                       critical_phase |-> critical_phase,
                       critical_active |-> critical_phase > 0,
                       phase_info |-> IF new_phase \in pc.phase_table
                                      THEN new_phase ELSE 0,
                       error |-> IF 0 \in pc.phase_table THEN ""
                                 ELSE "KeyError" ] ]

\* update on the controller state pc = [current_phase, phase_history,
\* poll_history, last_phase_change, phase_table] at time t: the state after
\* and the result.  A subscript on a phase the table lacks raises KeyError:
\* in _apply_hysteresis before anything but poll_history is written, and in
\* the phase-info lookup, whose default self.phases[0] is evaluated on every
\* call, after the phase is written.  phase_info is the phase whose entry
\* names the result.
update(pc, hopi_result, indicators, t) ==
    LET polls == DequeAppend(pc.poll_history,
                             [ timestamp |-> t,
                               hopi |-> hopi_result.hopi,
                               domain_scores |-> hopi_result.domain_scores,
                               indicators |-> Colors(indicators) ],
                             PollHistoryLen)
        target_phase == _determine_target_phase(hopi_result.hopi,
                            hopi_result.domain_scores, Colors(indicators))
        hysteresis == _apply_hysteresis(target_phase, hopi_result, polls,
                          pc.current_phase, pc.last_phase_change, t)
        critical_phase == _check_critical_jumps(indicators)
        jumped == IF critical_phase > hysteresis THEN critical_phase ELSE hysteresis
        new_phase == ConfidenceGate(jumped, hopi_result)
        phase_changed == new_phase # pc.current_phase
        held == [ phase |-> pc.current_phase,
                  changed |-> FALSE,
                  target_phase |-> target_phase,
                  hysteresis_phase |-> pc.current_phase,
                  hysteresis_active |-> FALSE,
                  critical_phase |-> 0,
                  critical_active |-> FALSE,
                  phase_info |-> pc.current_phase,
                  error |-> "KeyError" ]
    IN  IF /\ ReadsBand(target_phase, hopi_result, polls,
                        pc.current_phase, pc.last_phase_change, t)
           /\ target_phase \notin pc.phase_table
        THEN [ current_phase |-> pc.current_phase,
               poll_history |-> polls,
               phase_history |-> pc.phase_history,
               last_phase_change |-> pc.last_phase_change,
               result |-> held ]
        ELSE
        [ current_phase |-> new_phase,
          poll_history |-> polls,
          phase_history |->
              IF phase_changed
              THEN DequeAppend(pc.phase_history,
                       [ timestamp |-> t,
                         from_phase |-> pc.current_phase,
                         to_phase |-> new_phase,
                         direction |-> IF new_phase > pc.current_phase
                                       THEN "up" ELSE "down" ],
                       PhaseHistoryLen)
              ELSE pc.phase_history,
          last_phase_change |-> IF phase_changed THEN t ELSE pc.last_phase_change,
          result |-> [ phase |-> new_phase,
                       changed |-> phase_changed,
                       target_phase |-> target_phase,
                       hysteresis_phase |-> hysteresis,
                       hysteresis_active |-> target_phase # new_phase,
                       critical_phase |-> critical_phase,
                       critical_active |-> critical_phase > 0,
                       phase_info |-> IF new_phase \in pc.phase_table
                                      THEN new_phase ELSE 0,
                       error |-> IF 0 \in pc.phase_table THEN ""
                                 ELSE "KeyError" ] ]

-----------------------------------------------------------------------------
(* PhaseManagerHOPI.evaluate on the manager state                           *)
(*   st = [confirmation_tracker, history, current_phase, phase_history,     *)
(*         poll_history, last_phase_change]                                 *)

evaluate(st, readings, threat_levels, t, ties) ==
    LET prepared == _prepare_indicators(readings, threat_levels)
        stale_indicators == _check_stale_data(readings, t)
        forced == _apply_stale_forcing(prepared, stale_indicators, t)
        indicators == _apply_confirmation_rules(forced, st.confirmation_tracker, t)
        tracker == TrackerAfter(forced, st.confirmation_tracker, t)
        hist == _update_history(st.history, indicators)
        hopi_result == calculate(indicators, stale_indicators, hist, ties)
        pc == update(st, hopi_result, indicators, t)
    IN  [ confirmation_tracker |-> tracker,
          history |-> hist,
          current_phase |-> pc.current_phase,
          phase_history |-> pc.phase_history,
          poll_history |-> pc.poll_history,
          last_phase_change |-> pc.last_phase_change,
          indicators |-> indicators,
          stale_indicators |-> stale_indicators,
          hopi_result |-> hopi_result,
          phase_result |-> pc.result ]

-----------------------------------------------------------------------------
(* The drivers.  A cycle's input maps every collector to None or to a       *)
(* reading [value, ts, source] with the level the analyzer derives from its *)
(* value.                                                                   *)

Collectors == AllIndicators

Readings(inp) == [n \in DOMAIN inp |-> inp[n].reading]

\* Classify with strict comparisons: the variant C16 must tell from the code.
ClassifyAbove(value, amber, red) ==
    IF value > red THEN "red"
    ELSE IF value > amber THEN "amber"
    ELSE "green"

\* The cutoffs applied to a numeric value: red is tested first.
Classify(value, amber, red) ==
    IF value >= red THEN "red"
    ELSE IF value >= amber THEN "amber"
    ELSE "green"

\* The cutoffs written into the code for the two status collectors when
\* their value is numeric.
MockCutoffs ==
    [ TaiwanZone |-> [amber |-> 10, red |-> 20],
      DoDAutonomy |-> [amber |-> 500, red |-> 1000] ]

\* ThreatAnalyzer._calculate_threat_level for a numeric value.  thresholds is
\* the collector's entry of self.thresholds; trip_wire tells whether
\* get_trip_wire_config returns a non-empty dict for the collector.
_calculate_threat_level(collector_name, value, thresholds) ==
    IF collector_name \in DOMAIN MockCutoffs /\ thresholds.trip_wire
    THEN Classify(value, MockCutoffs[collector_name].amber, MockCutoffs[collector_name].red)
    ELSE Classify(value, thresholds.amber, thresholds.red)

\* ThreatAnalyzer.analyze: a None reading is "unknown".  Where the input
\* gives the collector's thresholds the level is computed from the value;
\* elsewhere level is the level the thresholds give the reading's value.
analyze(inp) ==
    [ n \in DOMAIN inp |->
        IF inp[n].reading = None THEN "unknown"
        ELSE IF inp[n].thresholds = << >> THEN inp[n].level
        ELSE _calculate_threat_level(n, inp[n].reading.value, inp[n].thresholds[1]) ]

\* dashboard get_status: the levels handed to evaluate.
ForcedLevels(inp, t) ==
    LET threat_levels == analyze(inp)
    IN  [ n \in DOMAIN inp |->
            IF inp[n].reading # None /\ check_staleness(inp[n].reading, t).stale
            THEN apply_stale_level(threat_levels[n], check_staleness(inp[n].reading, t))
            ELSE threat_levels[n] ]

get_status(st, inp, t, ties) == evaluate(st, Readings(inp), ForcedLevels(inp, t), t, ties)

\* monitor_all_indicators.main
monitor_main(st, inp, t, ties) == evaluate(st, Readings(inp), analyze(inp), t, ties)

State ==
    [ confirmation_tracker |-> confirmation_tracker,
      history |-> history,
      current_phase |-> current_phase,
      phase_history |-> phase_history,
      poll_history |-> poll_history,
      last_phase_change |-> last_phase_change,
      phase_table |-> phase_table ]

\* The threads of the development server that serve /api/status.
Threads == {"t1", "t2"}

\* A thread with no request in hand.
Idle ==
    [ pc |-> "idle", at |-> 0, input |-> << >>, threat_levels |-> << >>,
      indicators |-> << >>, stale_indicators |-> {}, hopi_result |-> << >> ]

NoResult ==
    [ cycle |-> 0, at |-> 0, input |-> << >>, threat_levels |-> << >>,
      indicators |-> << >>, stale_indicators |-> {},
      hopi_result |-> << >>, phase_result |-> << >>,
      phase_before |-> 0, tracker_before |-> << >>,
      change_before |-> 0, prev_target |-> -1 ]

Init ==
    /\ now = 0
    /\ driver \in {"dashboard", "monitor"}
    /\ cycles = 0
    /\ confirmation_tracker = << >>
    /\ history = << >>
    /\ current_phase = 0
    /\ phase_history = << >>
    /\ poll_history = << >>
    /\ last_phase_change = 0
    /\ phase_table = DOMAIN phases
    /\ requests = [r \in Threads |-> Idle]
    /\ latest = NoResult

\* The state after a cycle whose evaluate returned out.
Commit(out, inp, levels, t) ==
    /\ now' = t
    /\ cycles' = cycles + 1
    /\ confirmation_tracker' = out.confirmation_tracker
    /\ history' = out.history
    /\ current_phase' = out.current_phase
    /\ phase_history' = out.phase_history
    /\ poll_history' = out.poll_history
    /\ last_phase_change' = out.last_phase_change
    /\ latest' = [ cycle |-> cycles + 1, at |-> t, input |-> inp,
                   threat_levels |-> levels,
                   indicators |-> out.indicators,
                   stale_indicators |-> out.stale_indicators,
                   hopi_result |-> out.hopi_result,
                   phase_result |-> out.phase_result,
                   phase_before |-> current_phase,
                   tracker_before |-> confirmation_tracker,
                   change_before |-> last_phase_change,
                   prev_target |-> IF cycles = 0 THEN -1
                                   ELSE latest.phase_result.target_phase ]
    /\ UNCHANGED <<driver, phase_table>>

MaxCycles == 3

\* A described input d (ages instead of timestamps) as the input at time t.
Stamp(d, t) ==
    [ n \in DOMAIN d |->
        IF d[n] = None THEN [reading |-> None, level |-> "unknown", thresholds |-> << >>]
        ELSE [ reading |-> [ value |-> d[n].value,
                             ts |-> IF d[n].age = << >> THEN NoTimestamp
                                    ELSE << t - d[n].age[1] >>,
                             source |-> d[n].source ],
               level |-> d[n].level,
               thresholds |-> IF "thresholds" \in DOMAIN d[n] THEN d[n].thresholds
                              ELSE << >> ] ]

Down == [hopi |-> FALSE, confidence |-> FALSE]

\* The directions the float roundings of a cycle can take, given the cycle's
\* result with both taken down.
TieChoices(out) ==
    { ties \in [hopi : BOOLEAN, confidence : BOOLEAN] :
        /\ ties.hopi => out.hopi_result.halfway.hopi
        /\ ties.confidence => out.hopi_result.halfway.confidence }

\* One /api/status request dt ticks after the last cycle, among at most
\* bound cycles.
GetStatusWithin(d, dt, bound) ==
    /\ driver = "dashboard"
    /\ cycles < bound
    /\ LET t == now + dt
           inp == Stamp(d, t)
           down == get_status(State, inp, t, Down)
       IN  \E ties \in TieChoices(down) :
               Commit(IF ties = Down THEN down ELSE get_status(State, inp, t, ties),
                      inp, ForcedLevels(inp, t), t)
    /\ UNCHANGED requests

GetStatus(d, dt) == GetStatusWithin(d, dt, MaxCycles)

\* One run of the monitor script: a fresh manager, one cycle.
MonitorRun(d, dt) ==
    /\ driver = "monitor"
    /\ cycles = 0
    /\ LET t == now + dt
           inp == Stamp(d, t)
           down == monitor_main(State, inp, t, Down)
       IN  \E ties \in TieChoices(down) :
               Commit(IF ties = Down THEN down ELSE monitor_main(State, inp, t, ties),
                      inp, analyze(inp), t)
    /\ UNCHANGED requests

-----------------------------------------------------------------------------
(* Bounded inputs *)

Fresh(level) == [level |-> level, age |-> <<0>>, source |-> "live", value |-> 0]

Aged(level, h) == [level |-> level, age |-> <<Hours(h)>>, source |-> "live", value |-> 0]

Base(level) == [n \in Collectors |-> Fresh(level)]

Missing == [n \in Collectors |-> None]

RuleIndicators == UNION { critical_rules[k].conditions : k \in DOMAIN critical_rules }

\* Every indicator red except the ones a critical rule names.
RedBase == [n \in Collectors |-> IF n \in RuleIndicators THEN Fresh("green") ELSE Fresh("red")]

With(d, n, r) == [d EXCEPT ![n] = r]

Cycle(d, h) == [d |-> d, dt |-> Hours(h)]

\* The cycles of Spec: the phase machine's cases, one hour apart, and the
\* all-green and the single-red poll also 72 hours after the last one.
PhaseCycles ==
    { Cycle(Base("green"), 1),
      Cycle(Base("green"), 72),
      Cycle(With(Base("green"), "JoblessClaims", Fresh("amber")), 1),
      Cycle(With(Base("green"), "JoblessClaims", Fresh("red")), 1),
      Cycle(With(Base("green"), "JoblessClaims", Fresh("red")), 72),
      Cycle(RedBase, 1),
      Cycle(With(Base("green"), "GuardMetros", Fresh("red")), 1),
      Cycle(With(Base("green"), "DHSRemoval", Fresh("red")), 1),
      Cycle(With(Base("green"), "NATOReadiness", Fresh("red")), 1),
      Cycle(With(With(Base("green"), "NATOReadiness", Fresh("red")),
                 "RussiaNATO", [Fresh("green") EXCEPT !.value = 80]), 1),
      Cycle(With(With(Base("green"), "MarketVolatility", Fresh("red")),
                 "DeepfakeShocks", Fresh("red")), 1),
      Cycle(With(Missing, "JoblessClaims", Fresh("green")), 1),
      Cycle(With(Missing, "JoblessClaims", Fresh("red")), 1),
      Cycle(With(Missing, "GuardMetros", Fresh("red")), 1) }

Next ==
    \E c \in PhaseCycles :
        \/ GetStatus(c.d, c.dt)
        \/ MonitorRun(c.d, c.dt)

Spec == Init /\ [][Next]_vars

-----------------------------------------------------------------------------
(* The staleness cases: every collector fresh and green but JoblessClaims,  *)
(* whose reading is green or red at each age around the two limits, has no  *)
(* timestamp, or is missing.                                                *)

Untimed(level) == [level |-> level, age |-> << >>, source |-> "live", value |-> 0]

StaleReadings ==
    { Aged(l, h) : l \in {"green", "red"}, h \in {0, amber_hours, 50, red_hours} }
      \cup { Untimed("green"), None }

StaleCycles == { Cycle(With(Base("green"), "JoblessClaims", r), 1) : r \in StaleReadings }

NextStale ==
    \E c \in StaleCycles :
        \/ GetStatus(c.d, c.dt)
        \/ MonitorRun(c.d, c.dt)

SpecStale == Init /\ [][NextStale]_vars

-----------------------------------------------------------------------------
(* The confirmation cases: polls half an hour, one hour and ninety minutes  *)
(* apart with JoblessClaims red, and polls that clear it or bring a         *)
(* critical red.                                                            *)

ConfirmCycles ==
    { [d |-> With(Base("green"), "JoblessClaims", Fresh("red")), dt |-> k] : k \in 1..3 }
      \cup { [d |-> Base("green"), dt |-> 1],
             [d |-> With(Base("green"), "JoblessClaims", Fresh("amber")), dt |-> 1],
             [d |-> With(With(Base("green"), "JoblessClaims", Fresh("red")),
                         "GuardMetros", Fresh("red")), dt |-> 1] }

NextConfirm ==
    \E c \in ConfirmCycles :
        \/ GetStatus(c.d, c.dt)
        \/ MonitorRun(c.d, c.dt)

SpecConfirm == Init /\ [][NextConfirm]_vars

-----------------------------------------------------------------------------
(* Properties.  latest holds the last cycle: its input, the indicators that *)
(* entered scoring, the two results, and the phase, tracker, change time    *)
(* and target before it.                                                    *)

Cycled == latest.cycle > 0

Red(n) == n \in DOMAIN latest.indicators /\ latest.indicators[n].color = 2

AnyRuleMet == \E k \in DOMAIN critical_rules : RuleMet(critical_rules[k], latest.indicators)

Gated == latest.hopi_result.confidence < 600 /\ latest.hopi_result.critical_reds = 0

\* The cycle c run from the present state by the present driver.
RunCycle(c) ==
    LET t == now + c.dt
        inp == Stamp(c.d, t)
    IN  IF driver = "dashboard" THEN get_status(State, inp, t, Down)
        ELSE monitor_main(State, inp, t, Down)

\* d2 is d1 with one indicator's color raised and nothing else changed.
Raised(d1, d2) ==
    \E n \in DOMAIN d1 :
        /\ \A m \in (DOMAIN d1) \ {n} : d1[m] = d2[m]
        /\ d1[n] # None
        /\ d2[n] # None
        /\ d2[n] = [d1[n] EXCEPT !.level = d2[n].level]
        /\ color_map(d1[n].level) < color_map(d2[n].level)

\* C1: of two cycles run from the same state whose inputs differ only in one
\* indicator's color, higher in the second, the second has the composite
\* score and the resulting phase at least as high as the first.
C1_Monotone ==
    \A c1, c2 \in PhaseCycles :
        ((driver = "dashboard" \/ cycles = 0) /\ c1.dt = c2.dt /\ Raised(c1.d, c2.d)) =>
            /\ RunCycle(c2).hopi_result.hopi >= RunCycle(c1).hopi_result.hopi
            /\ RunCycle(c2).current_phase >= RunCycle(c1).current_phase

\* C2: a cycle whose target is above the current phase, while the previous
\* cycle's target was lower than this one's or there was no previous cycle,
\* and in which no critical jump rule is met, leaves the phase as it was.
C2_EscalationNeedsRepetition ==
    ( /\ Cycled
      /\ latest.phase_result.target_phase > latest.phase_before
      /\ latest.prev_target < latest.phase_result.target_phase
      /\ ~AnyRuleMet )
        => current_phase = latest.phase_before

\* A second cycle whose target rose above the previous one's and above the
\* phase, and the phase held.
C2_Witness ==
    /\ latest.cycle >= 2
    /\ latest.prev_target >= 0
    /\ latest.prev_target < latest.phase_result.target_phase
    /\ latest.phase_result.target_phase > latest.phase_before
    /\ ~AnyRuleMet
    /\ current_phase = latest.phase_before

DeescalationBarred ==
    \/ \E n \in DOMAIN latest.indicators : Red(n)
    \/ latest.at - latest.change_before < Hours(72)

\* C3 as stated: in a cycle with a red indicator, or fewer than 72 hours
\* after the last phase change, the phase does not go down.
C3_NoDeescalation ==
    (Cycled /\ DeescalationBarred) => current_phase >= latest.phase_before

\* C3: in a cycle with a red indicator, or fewer than 72 hours after the last
\* phase change, the phase does not go down, except that a phase above 3 is
\* brought to 3 when confidence is below 0.60 and no critical indicator is red.
C3_NoDeescalationUnlessGated ==
    (Cycled /\ DeescalationBarred) =>
        IF Gated /\ latest.phase_before > 6
        THEN current_phase = 6
        ELSE current_phase >= latest.phase_before

\* 72 hours after the last change a poll with a red indicator asks for a
\* lower phase, and the phase holds.
C3_Witness ==
    /\ Cycled
    /\ \E n \in DOMAIN latest.indicators : Red(n)
    /\ latest.at - latest.change_before >= Hours(72)
    /\ latest.phase_result.target_phase < latest.phase_before
    /\ current_phase = latest.phase_before

\* C4: after a cycle with confidence below 0.60 and no critical red the phase
\* is at most 3.
C4_ConfidenceGate == (Cycled /\ Gated) => current_phase <= 6

\* The gate brings a phase above 3 down to 3.
C4_Witness == Cycled /\ Gated /\ latest.phase_before > 6 /\ current_phase = 6

RussiaNATOValue ==
    IF "RussiaNATO" \in DOMAIN latest.indicators
    THEN latest.indicators["RussiaNATO"].value ELSE 0

CriticalMinimumsHold ==
    /\ (Red("MarketVolatility") /\ Red("DeepfakeShocks")) => current_phase >= 14
    /\ Red("NATOReadiness") => current_phase >= 12
    /\ (Red("NATOReadiness") /\ RussiaNATOValue >= 75) => current_phase >= 14
    /\ (Red("GuardMetros") \/ Red("DHSRemoval")) => current_phase >= 10

Jumped == Max(latest.phase_result.hysteresis_phase, latest.phase_result.critical_phase)

\* C5 as stated: a met rule's minimum bounds the phase of the same cycle
\* from below (7 for MarketVolatility and DeepfakeShocks, 6 for
\* NATOReadiness and 7 with RussiaNATO at 75 or more, 5 for GuardMetros or
\* DHSRemoval), and the final phase is the maximum of the hysteresis result
\* and the minimums of the rules met.
C5_FinalIsMaximum ==
    Cycled => (CriticalMinimumsHold /\ current_phase = Jumped)

\* C5: a met rule's minimum bounds the phase of the same cycle from below,
\* and the final phase is the maximum of the hysteresis result and the
\* minimums of the rules met, brought down to 3 if it is above 3 while
\* confidence is below 0.60 and no critical indicator is red.
C5_CriticalMinimums ==
    Cycled =>
        /\ CriticalMinimumsHold
        /\ current_phase = IF Gated /\ Jumped > 6 THEN 6 ELSE Jumped

\* NATOReadiness red with RussiaNATO at 75 or more lifts the phase to 7 over
\* a lower hysteresis result.
C5_Witness ==
    /\ Cycled
    /\ Red("NATOReadiness")
    /\ RussiaNATOValue >= 75
    /\ latest.phase_result.hysteresis_phase < 14
    /\ current_phase = 14

NonCritical(n) == n \notin critical_indicators \cup all_critical

\* colors has exactly one red, of a non-critical indicator, and all else green.
SingleRed(colors) ==
    \E n \in DOMAIN colors :
        /\ NonCritical(n)
        /\ colors[n] = 2
        /\ \A m \in (DOMAIN colors) \ {n} : colors[m] = 0

\* C6: a cycle with a red indicator has a target phase of at least 3, and the
\* second of two consecutive cycles with the same single non-critical red and
\* all else green, begun at phase 0, ends at phase 3.
C6_AnyRedTargetsThree ==
    /\ (Cycled /\ \E n \in DOMAIN latest.indicators : Red(n))
          => latest.phase_result.target_phase >= 6
    /\ ( /\ latest.cycle >= 2
         /\ latest.phase_before = 0
         /\ SingleRed(poll_history[Len(poll_history)].indicators)
         /\ poll_history[Len(poll_history) - 1].indicators
              = poll_history[Len(poll_history)].indicators )
          => current_phase = 6

\* C7: every reading enters scoring with a color at least the color its value
\* gives.
C7_StaleNeverImproves ==
    Cycled =>
        \A n \in DOMAIN latest.indicators :
            latest.indicators[n].color >= color_map(latest.input[n].level)

\* C8: an indicator whose reading is missing or has no timestamp enters
\* scoring red.
C8_MissingForcedRed ==
    Cycled =>
        \A n \in DOMAIN latest.input :
            (\/ latest.input[n].reading = None
             \/ latest.input[n].reading.ts = NoTimestamp) => Red(n)

\* C9: a reading of age 168 h or more enters scoring red, one of age 48 h or
\* more and less than 168 h with the higher of its value color and amber, a
\* younger one with its value color; at exactly 168 h check_staleness and
\* _apply_stale_forcing both force red, at exactly 48 h both force at least
\* amber.
C9_StaleLimits ==
    Cycled =>
        \A n \in DOMAIN latest.indicators :
            latest.indicators[n].ts # NoTimestamp =>
                LET reading == latest.input[n].reading
                    age == latest.at - reading.ts[1]
                    value_color == color_map(latest.input[n].level)
                    color == latest.indicators[n].color
                    force_level == check_staleness(reading, latest.at).force_level
                    forced == ForceStale(latest.indicators[n], latest.at).color
                IN  /\ age >= Hours(red_hours) => color = 2
                    /\ (age >= Hours(amber_hours) /\ age < Hours(red_hours))
                          => color = Max(value_color, 1)
                    /\ age < Hours(amber_hours) => color = value_color
                    /\ age = Hours(red_hours) => (force_level = "red" /\ forced = 2)
                    /\ age = Hours(amber_hours)
                          => (force_level \in {"amber", "red"} /\ forced >= 1)

\* C10: a non-critical indicator is unconfirmed with count 1 on the first
\* cycle it is red; red again no more than one hour after it was first seen
\* red, its count goes up by one and it is confirmed from count 2 on; red
\* again later than that, it is back at count 1, unconfirmed.
C10_Confirmation ==
    Cycled =>
        \A n \in DOMAIN latest.indicators :
            (Red(n) /\ n \notin critical_indicators) =>
                LET entry == confirmation_tracker[n]
                    confirmed == latest.indicators[n].confirmed
                IN  IF n \notin DOMAIN latest.tracker_before
                    THEN entry.count = 1 /\ ~confirmed
                    ELSE LET before == latest.tracker_before[n]
                         IN  IF latest.at - before.first_seen <= 3600 \div TickSeconds
                             THEN /\ entry.count = before.count + 1
                                  /\ confirmed = (entry.count >= confirmation_polls)
                             ELSE entry.count = 1 /\ ~confirmed

\* C11: a critical indicator that is red in a cycle is confirmed in that
\* cycle, the first one included, and the confirmation tracker never holds an
\* entry for a critical indicator.
C11_CriticalSkipConfirmation ==
    \A n \in critical_indicators :
        /\ (Cycled /\ Red(n)) => latest.indicators[n].confirmed
        /\ n \notin DOMAIN confirmation_tracker

\* On the first cycle GuardMetros is red and confirmed while JoblessClaims,
\* red in the same cycle, is not.
C11_Witness ==
    /\ latest.cycle = 1
    /\ Red("GuardMetros")
    /\ latest.indicators["GuardMetros"].confirmed
    /\ Red("JoblessClaims")
    /\ ~latest.indicators["JoblessClaims"].confirmed
    /\ DOMAIN confirmation_tracker = {"JoblessClaims"}

\* The colors of the poll before the last one.
PreviousColors == poll_history[Len(poll_history) - 1].indicators

\* C12: a non-critical indicator evaluated with a color other than red has no
\* tracker entry after the cycle, and when it is red in the next cycle it
\* starts again at count 1, unconfirmed.
C12_DropClearsConfirmation ==
    Cycled =>
        \A n \in (DOMAIN latest.indicators) \ critical_indicators :
            /\ ~Red(n) => n \notin DOMAIN confirmation_tracker
            /\ ( /\ Red(n)
                 /\ latest.cycle >= 2
                 /\ n \in DOMAIN PreviousColors
                 /\ PreviousColors[n] # 2 )
                  => /\ confirmation_tracker[n].count = 1
                     /\ ~latest.indicators[n].confirmed

\* JoblessClaims red, then amber, then red again: the amber cycle left no
\* entry and the third cycle starts a streak of its own.
C12_Witness ==
    /\ latest.cycle = 3
    /\ poll_history[1].indicators["JoblessClaims"] = 2
    /\ poll_history[2].indicators["JoblessClaims"] = 1
    /\ Red("JoblessClaims")
    /\ "JoblessClaims" \notin DOMAIN latest.tracker_before
    /\ confirmation_tracker["JoblessClaims"].count = 1
    /\ ~latest.indicators["JoblessClaims"].confirmed

-----------------------------------------------------------------------------
(* The scoring cases: every collector at one color, the members of a capped *)
(* pair raised, MBridgeSettlements alone red, and cycles in which every     *)
(* reading, or every reading but one, is missing.                           *)

HopiCycles ==
    { Cycle(Base("green"), 1),
      Cycle(Base("amber"), 1),
      Cycle(Base("red"), 1),
      Cycle(With(With(Base("green"), "ICEDetention", Fresh("amber")),
                 "ICEDetentions", Fresh("red")), 1),
      Cycle(With(With(Base("green"), "TaiwanZone", Fresh("red")),
                 "TaiwanPLA", Fresh("red")), 1),
      Cycle(With(Base("green"), "MBridgeSettlements", Fresh("red")), 1),
      Cycle(Missing, 1),
      Cycle(With(Missing, "JoblessClaims", Fresh("red")), 1) }

NextHopi ==
    \E c \in HopiCycles :
        \/ GetStatus(c.d, c.dt)
        \/ MonitorRun(c.d, c.dt)

SpecHopi == Init /\ [][NextHopi]_vars

PairSum(points, rule) == points[rule.pair[1]] + points[rule.pair[2]]

\* 2 x weight x cap_factor of the rule's domain, in 1/PointDen (the weight is
\* held in quarters and the factor in halves).
PairLimit(rule) == domains[rule.domain].weight * rule.cap_factor * PointScale

\* The last cycle's indicators with the members of the rule's pair recolored.
Recolored(rule, ca, cb) ==
    [latest.indicators EXCEPT ![rule.pair[1]].color = ca, ![rule.pair[2]].color = cb]

\* C13: for every pair-cap rule and every pair of colors of its members, the
\* members' points after _apply_pair_caps sum to at most 2 x weight x
\* cap_factor of the rule's domain, and to exactly that when the uncapped sum
\* was larger.
C13_PairCapBound ==
    Cycled =>
        \A k \in DOMAIN pair_caps :
            Range(pair_caps[k].pair) \subseteq DOMAIN latest.indicators =>
                \A ca, cb \in 0..2 :
                    LET rule == pair_caps[k]
                        points == _calculate_indicator_points(Recolored(rule, ca, cb))
                        capped == _apply_pair_caps(points)
                    IN  /\ PairSum(capped, rule) <= PairLimit(rule)
                        /\ PairSum(points, rule) > PairLimit(rule)
                              => PairSum(capped, rule) = PairLimit(rule)

\* A cycle with ICEDetention amber and ICEDetentions red: 1.0 + 2.5 points
\* are capped to 2.5.
C13_Witness ==
    /\ Cycled
    /\ {"ICEDetention", "ICEDetentions"} \subseteq DOMAIN latest.indicators
    /\ latest.indicators["ICEDetention"].color = 1
    /\ latest.indicators["ICEDetentions"].color = 2
    /\ LET points == _calculate_indicator_points(latest.indicators)
       IN  /\ PairSum(points, pair_caps[1]) > PairLimit(pair_caps[1])
           /\ PairSum(_apply_pair_caps(points), pair_caps[1]) = PairLimit(pair_caps[1])

\* C14: every domain score calculate returns lies in [0, 1], the trend bonus
\* included, and so does the composite score.
C14_DomainScoreBound ==
    Cycled =>
        /\ \A d \in DomainNames :
              /\ latest.hopi_result.domain_scores[d] >= 0
              /\ latest.hopi_result.domain_scores[d] <= 1000
        /\ latest.hopi_result.hopi >= 0
        /\ latest.hopi_result.hopi <= 1000

\* The domains the trend bonus went to in the last cycle.
Bonused ==
    { d \in DomainNames : _apply_trend_bonus([e \in DomainNames |-> 0], history)[d] > 0 }

\* A domain whose critical member's doubled points carry it past 1 gets the
\* trend bonus as well and is returned as 1.
C14_Witness ==
    /\ latest.cycle >= 2
    /\ \E d \in Bonused :
          LET points == _apply_pair_caps(_calculate_indicator_points(latest.indicators))
              members == domains[d].indicators
              domain_points == SumSeq([k \in DOMAIN members |-> PointsGet(points, members[k])])
          IN  /\ domain_points > 2 * domains[d].weight * Len(members) * PointScale
              /\ latest.hopi_result.domain_scores[d] = 1000

\* C15: the confidence calculate returns lies in [0, 1]; it is 1 when no
\* indicator is scored, and with no red it is 1 - stale/total, floored at 0.
C15_ConfidenceBound ==
    Cycled =>
        LET confidence == latest.hopi_result.confidence
            total == Cardinality(DOMAIN latest.indicators)
            stale == latest.hopi_result.stale_count
        IN  /\ confidence >= 0
            /\ confidence <= 1000
            /\ total = 0 => confidence = 1000
            /\ (total > 0 /\ latest.hopi_result.total_reds = 0)
                  => \E up \in BOOLEAN : confidence = Round3(Max(0, total - stale), total, up)

\* One indicator scored, every other reading missing: 1 - stale/1 is
\* returned as 0.
C15_Witness ==
    /\ Cycled
    /\ Cardinality(DOMAIN latest.indicators) > 0
    /\ latest.hopi_result.stale_count > Cardinality(DOMAIN latest.indicators)
    /\ latest.hopi_result.confidence = 0

\* The domains whose member list names the indicator.
ListingDomains(i) == { d \in DomainNames : i \in Range(domains[d].indicators) }

\* The indicators of the last cycle that are not green.
Raising == { i \in DOMAIN latest.indicators : latest.indicators[i].color > 0 }

\* C17: every scored indicator is listed by exactly one domain, and a cycle
\* whose only non-green indicator is i gives a positive score to the one
\* domain listing i and to no other.
C17_OneDomainPerIndicator ==
    Cycled =>
        \A i \in (DOMAIN latest.indicators) \cap AllIndicators :
            /\ Cardinality(ListingDomains(i)) = 1
            /\ Raising = {i}
                  => { d \in DomainNames : latest.hopi_result.domain_scores[d] > 0 }
                         = { OwnerOf[i] }

\* C18: both members of every pair-cap rule applied in a cycle are listed by
\* the rule's domain, so each member's points carry the weight the cap is
\* computed with.
C18_PairInOwningDomain ==
    Cycled =>
        \A k \in DOMAIN pair_caps :
            Range(pair_caps[k].pair) \subseteq DOMAIN latest.indicators =>
                \A m \in Range(pair_caps[k].pair) :
                    /\ m \in Range(domains[pair_caps[k].domain].indicators)
                    /\ domains[OwnerOf[m]].weight = domains[pair_caps[k].domain].weight

-----------------------------------------------------------------------------
(* The classifier's cases: JoblessClaims measured against an ordered and an *)
(* inverted pair of cutoffs, at values below, at and above each cutoff, and *)
(* the two status collectors reporting numbers.                             *)

Thresholds(amber, red, trip_wire) ==
    << [amber |-> amber, red |-> red, trip_wire |-> trip_wire] >>

\* A fresh reading of a collector whose thresholds are configured.
Measured(value, thresholds) ==
    [level |-> "unknown", age |-> <<0>>, source |-> "live", value |-> value,
     thresholds |-> thresholds]

ClassifyValues == 1..5

ClassifyThresholds == { Thresholds(2, 4, TRUE), Thresholds(4, 2, TRUE) }

ClassifyCycles ==
    { Cycle(With(Base("green"), "JoblessClaims", Measured(v, th)), 1) :
          v \in ClassifyValues, th \in ClassifyThresholds }
      \cup { Cycle(With(Base("green"), "TaiwanZone", Measured(15, Thresholds(2, 4, TRUE))), 1),
             Cycle(With(Base("green"), "TaiwanZone", Measured(15, Thresholds(2, 4, FALSE))), 1) }

NextClassify ==
    \E c \in ClassifyCycles :
        \/ GetStatus(c.d, c.dt)
        \/ MonitorRun(c.d, c.dt)

SpecClassify == Init /\ [][NextClassify]_vars

\* The collectors whose thresholds the last cycle's input gives.
Configured == { n \in DOMAIN latest.input : latest.input[n].thresholds # << >> }

\* C16 as stated: with cutoffs (amber, red) in either order, a numeric value
\* is green below amber, amber from amber up to red, and red from red on.
C16_ThreeBands ==
    Cycled =>
        \A n \in Configured :
            LET value == latest.input[n].reading.value
                th == latest.input[n].thresholds[1]
                level == latest.threat_levels[n]
            IN  /\ value < th.amber => level = "green"
                /\ (th.amber <= value /\ value < th.red) => level = "amber"
                /\ value >= th.red => level = "red"

\* The cutoffs the classifier applies to a collector: the configured pair,
\* or the fixed pair of a status collector that has a trip-wire entry.
Applied(n) ==
    LET th == latest.input[n].thresholds[1]
    IN  IF n = "TaiwanZone" /\ th.trip_wire THEN [amber |-> 10, red |-> 20]
        ELSE IF n = "DoDAutonomy" /\ th.trip_wire THEN [amber |-> 500, red |-> 1000]
        ELSE [amber |-> th.amber, red |-> th.red]

\* C16: a numeric value is red exactly when it is at or above the red cutoff,
\* amber exactly when it is below the red cutoff and at or above the amber
\* cutoff, and green exactly when it is below both.
C16_RedFirst ==
    Cycled =>
        \A n \in Configured :
            LET value == latest.input[n].reading.value
                level == latest.threat_levels[n]
            IN  /\ level = "red" <=> value >= Applied(n).red
                /\ level = "amber" <=> (value < Applied(n).red /\ value >= Applied(n).amber)
                /\ level = "green" <=> (value < Applied(n).red /\ value < Applied(n).amber)

\* JoblessClaims at 3 against the inverted pair (amber 4, red 2) is red.
C16_Witness ==
    /\ Cycled
    /\ "JoblessClaims" \in Configured
    /\ latest.input["JoblessClaims"].reading.value = 3
    /\ latest.input["JoblessClaims"].thresholds[1].amber = 4
    /\ latest.input["JoblessClaims"].thresholds[1].red = 2
    /\ latest.threat_levels["JoblessClaims"] = "red"
    /\ latest.indicators["JoblessClaims"].color = 2

-----------------------------------------------------------------------------
(* Overlapping /api/status requests.  app.run serves each request on its    *)
(* own thread and get_status calls evaluate on the one module-level         *)
(* phase_manager without a lock.  A request runs in four blocks, each       *)
(* touching one part of the shared state; the interpreter may switch        *)
(* threads between them (and inside them, which is not modelled).           *)

InFlight == { r \in Threads : requests[r].pc # "idle" }

\* get_status up to evaluate's stale forcing: the request's own data.
Begin(r, d, dt) ==
    /\ driver = "dashboard"
    /\ requests[r].pc = "idle"
    /\ cycles + Cardinality(InFlight) < MaxCycles
    /\ LET t == now + dt
           inp == Stamp(d, t)
           threat_levels == ForcedLevels(inp, t)
           prepared == _prepare_indicators(Readings(inp), threat_levels)
           stale_indicators == _check_stale_data(Readings(inp), t)
       IN  /\ now' = t
           /\ requests' = [requests EXCEPT ![r] =
                  [ pc |-> "confirm", at |-> t, input |-> inp,
                    threat_levels |-> threat_levels,
                    indicators |-> _apply_stale_forcing(prepared, stale_indicators, t),
                    stale_indicators |-> stale_indicators,
                    hopi_result |-> << >> ]]
    /\ UNCHANGED <<driver, cycles, confirmation_tracker, history, current_phase,
                   phase_history, poll_history, last_phase_change, phase_table, latest>>

\* _apply_confirmation_rules: reads and writes confirmation_tracker.
Confirm(r) ==
    /\ requests[r].pc = "confirm"
    /\ confirmation_tracker' =
           TrackerAfter(requests[r].indicators, confirmation_tracker, requests[r].at)
    /\ requests' = [requests EXCEPT
           ![r].pc = "calculate",
           ![r].indicators =
               _apply_confirmation_rules(requests[r].indicators, confirmation_tracker,
                                         requests[r].at)]
    /\ UNCHANGED <<now, driver, cycles, history, current_phase, phase_history,
                   poll_history, last_phase_change, phase_table, latest>>

\* HOPICalculator.calculate: appends to history and reads it for the trend.
Calculate(r) ==
    /\ requests[r].pc = "calculate"
    /\ LET hist == _update_history(history, requests[r].indicators)
           down == calculate(requests[r].indicators, requests[r].stale_indicators,
                             hist, Down)
       IN  /\ history' = hist
           /\ \E ties \in TieChoices([hopi_result |-> down]) :
                  requests' = [requests EXCEPT
                      ![r].pc = "update",
                      ![r].hopi_result =
                          IF ties = Down THEN down
                          ELSE calculate(requests[r].indicators,
                                         requests[r].stale_indicators, hist, ties)]
    /\ UNCHANGED <<now, driver, cycles, confirmation_tracker, current_phase,
                   phase_history, poll_history, last_phase_change, phase_table, latest>>

\* PhaseController.update and the return of evaluate to get_status.
Update(r) ==
    /\ requests[r].pc = "update"
    /\ LET pc == update(State, requests[r].hopi_result, requests[r].indicators,
                        requests[r].at)
       IN  /\ current_phase' = pc.current_phase
           /\ phase_history' = pc.phase_history
           /\ poll_history' = pc.poll_history
           /\ last_phase_change' = pc.last_phase_change
           /\ latest' = [ cycle |-> cycles + 1, at |-> requests[r].at,
                          input |-> requests[r].input,
                          threat_levels |-> requests[r].threat_levels,
                          indicators |-> requests[r].indicators,
                          stale_indicators |-> requests[r].stale_indicators,
                          hopi_result |-> requests[r].hopi_result,
                          phase_result |-> pc.result,
                          phase_before |-> current_phase,
                          tracker_before |-> confirmation_tracker,
                          change_before |-> last_phase_change,
                          prev_target |-> IF cycles = 0 THEN -1
                                          ELSE latest.phase_result.target_phase ]
    /\ cycles' = cycles + 1
    /\ requests' = [requests EXCEPT ![r] = Idle]
    /\ UNCHANGED <<now, driver, confirmation_tracker, history, phase_table>>

\* Requests arrive within the same tick as the one before or an hour later.
OverlapCycles ==
    { Cycle(d, h) : d \in { Base("green"),
                            With(Base("green"), "JoblessClaims", Fresh("red")),
                            With(Base("green"), "GuardMetros", Fresh("red")) },
                    h \in {0, 1} }

NextOverlap ==
    \E r \in Threads :
        \/ \E c \in OverlapCycles : Begin(r, c.d, c.dt)
        \/ Confirm(r)
        \/ Calculate(r)
        \/ Update(r)

SpecOverlap == Init /\ [][NextOverlap]_vars

\* The requests that have entered the shared part of evaluate and have not
\* returned.
Evaluating == { r \in Threads : requests[r].pc \in {"calculate", "update"} }

\* C19: overlapping evaluate calls are serialized: no request reads or
\* writes the confirmation tracker, the histories or the phase while another
\* request that has done so has yet to produce its output.
C19_Serialized == Cardinality(Evaluating) <= 1

-----------------------------------------------------------------------------
(* The phase table as an attribute of the controller.  __init__ fills       *)
(* self.phases with all eleven entries; update and _apply_hysteresis read   *)
(* whatever the attribute holds, here the table with one entry taken out.   *)

\* The entries taken out: phase 0 (the default of the phase-info lookup and
\* the target of an all-green poll) and phase 5 (the GuardMetros jump).
Removable == {0, 10}

InitTable ==
    /\ now = 0
    /\ driver \in {"dashboard", "monitor"}
    /\ cycles = 0
    /\ confirmation_tracker = << >>
    /\ history = << >>
    /\ current_phase = 0
    /\ phase_history = << >>
    /\ poll_history = << >>
    /\ last_phase_change = 0
    /\ phase_table \in { DOMAIN phases } \cup { (DOMAIN phases) \ {p} : p \in Removable }
    /\ requests = [r \in Threads |-> Idle]
    /\ latest = NoResult

TableCycles ==
    { Cycle(With(Base("green"), "GuardMetros", Fresh("red")), 1),
      Cycle(Base("green"), 1),
      Cycle(Base("green"), 72),
      Cycle(Base("amber"), 1) }

NextTable ==
    \E c \in TableCycles :
        \/ GetStatus(c.d, c.dt)
        \/ MonitorRun(c.d, c.dt)

SpecTable == InitTable /\ [][NextTable]_vars

\* The last cycle's band check read the entry of a target the table lacks.
BandMissing ==
    /\ ReadsBand(latest.phase_result.target_phase, latest.hopi_result, poll_history,
                 latest.phase_before, latest.change_before, latest.at)
    /\ latest.phase_result.target_phase \notin phase_table

\* The phase the last cycle ended in has no entry.
ResultMissing == current_phase \notin phase_table

-----------------------------------------------------------------------------
(* The confirmed flag *)

\* The history the last cycle started from.
PriorHistory == SubSeq(history, 1, Len(history) - 1)

\* The last cycle's indicators with the confirmed flags set by f.
Reflagged(f) ==
    [ i \in DOMAIN latest.indicators |-> [latest.indicators[i] EXCEPT !.confirmed = f[i]] ]

\* The flaggings tried: all confirmed, none confirmed, and each single flag
\* turned over.
Flaggings ==
    LET names == DOMAIN latest.indicators
    IN  { [i \in names |-> b] : b \in BOOLEAN }
          \cup { [i \in names |-> IF i = n THEN ~latest.indicators[i].confirmed
                                  ELSE latest.indicators[i].confirmed] : n \in names }

\* calculate and the target phase on an indicator map, from the state the
\* last cycle started from.
Scored(indicators) ==
    LET result == calculate(indicators, latest.stale_indicators,
                            _update_history(PriorHistory, indicators), Down)
    IN  [ colors |-> Colors(indicators),
          domain_scores |-> result.domain_scores,
          hopi |-> result.hopi,
          total_reds |-> result.total_reds,
          critical_reds |-> result.critical_reds,
          target_phase |-> _determine_target_phase(result.hopi, result.domain_scores,
                                                   Colors(indicators)),
          single_source_reds |-> result.single_source_reds,
          confidence |-> result.confidence ]

Unflagged(scored) ==
    [ k \in (DOMAIN scored) \ {"single_source_reds", "confidence"} |-> scored[k] ]

\* C21: the same cycle run on indicators that differ only in their confirmed
\* flags gives the same colors, domain scores, composite score, total_reds,
\* critical_reds and target phase.
C21_ConfirmedOnlyInConfidence ==
    Cycled =>
        \A f \in Flaggings :
            Unflagged(Scored(Reflagged(f))) = Unflagged(Scored(latest.indicators))

\* JoblessClaims red and unconfirmed: confirming it changes the confidence
\* and single_source_reds and nothing else.
C21_Witness ==
    /\ Cycled
    /\ Red("JoblessClaims")
    /\ ~latest.indicators["JoblessClaims"].confirmed
    /\ LET all == Reflagged([i \in DOMAIN latest.indicators |-> TRUE])
       IN  /\ Scored(all).confidence > Scored(latest.indicators).confidence
           /\ Scored(all).single_source_reds < Scored(latest.indicators).single_source_reds
           /\ Scored(latest.indicators).confidence = latest.hopi_result.confidence

-----------------------------------------------------------------------------
(* The order of the phases *)

PhaseOrder == <<0, 2, 4, 5, 6, 8, 10, 12, 14, 16, 18>>

Position(p) == CHOOSE k \in DOMAIN PhaseOrder : PhaseOrder[k] = p

Adjacent(p, q) == Position(p) - Position(q) \in {-1, 0, 1}

\* C22: in a cycle in which no critical rule's conditions hold, the phase
\* after the cycle is the phase before it or a neighbour of it in the order
\* 0, 1, 2, 2.5, 3, ..., 9.
C22_AdjacentOnly ==
    (Cycled /\ ~AnyRuleMet) => Adjacent(latest.phase_before, current_phase)

-----------------------------------------------------------------------------
(* De-escalation: a critical jump to phase 5, then polls without reds, one  *)
(* or seventy-two hours apart, whose scores lie in, under or over the band  *)
(* of their target.                                                         *)

DescendCycles ==
    { Cycle(With(Base("green"), "GuardMetros", Fresh("red")), 1),
      Cycle(Base("green"), 1),
      Cycle(Base("green"), 72),
      Cycle(With(Base("green"), "JoblessClaims", Fresh("amber")), 1),
      Cycle(With(Base("green"), "JoblessClaims", Fresh("amber")), 72),
      Cycle(Base("amber"), 1),
      Cycle(Base("amber"), 72) }

NextDescend ==
    \E c \in DescendCycles :
        \/ GetStatus(c.d, c.dt)
        \/ MonitorRun(c.d, c.dt)

SpecDescend == Init /\ [][NextDescend]_vars

\* The hysteresis step of the last cycle lowered the phase.
Lowered == Cycled /\ latest.phase_result.hysteresis_phase < latest.phase_before

\* The composite scores of the last three cycles, the current one included.
RecentHopis == { poll_history[k].hopi : k \in (Len(poll_history) - 2)..Len(poll_history) }

TargetBand == phases[latest.phase_result.target_phase].hopi_range

\* C23 as stated: the hysteresis step lowers the phase only to the target,
\* only with three cycles recorded, and only if the last three composite
\* scores lie in the target's band, at or above its lower bound and below
\* its upper bound.
C23_InBand ==
    Lowered =>
        /\ latest.phase_result.hysteresis_phase = latest.phase_result.target_phase
        /\ Len(poll_history) >= 3
        /\ \A h \in RecentHopis : TargetBand[1] <= h /\ h < TargetBand[2]

\* C23: the hysteresis step lowers the phase only to the target, only with
\* three cycles recorded, and only if the last three composite scores are all
\* at or below the upper bound of the target's band; in a cycle with a lower
\* target where that fails it returns the current phase.
C23_AtOrBelowBand ==
    /\ Lowered =>
          /\ latest.phase_result.hysteresis_phase = latest.phase_result.target_phase
          /\ Len(poll_history) >= 3
          /\ \A h \in RecentHopis : h <= TargetBand[2]
    /\ (/\ Cycled
        /\ latest.phase_result.target_phase < latest.phase_before
        /\ \/ Len(poll_history) < 3
           \/ \E h \in RecentHopis : h > TargetBand[2])
          => latest.phase_result.hysteresis_phase = latest.phase_before

\* From phase 5 the phase is lowered to 1 on polls with a single amber, whose
\* scores lie under the band of phase 1.
C23_Witness ==
    /\ Lowered
    /\ latest.phase_before = 10
    /\ current_phase = 2
    /\ \A h \in RecentHopis : h < TargetBand[1]

-----------------------------------------------------------------------------
(* The window of the Market+Deepfake rule: MarketVolatility and             *)
(* DeepfakeShocks turning red in the same poll, an hour apart and four      *)
(* hours apart.                                                             *)

BothRed == With(With(Base("green"), "MarketVolatility", Fresh("red")),
                "DeepfakeShocks", Fresh("red"))

WindowCycles ==
    { Cycle(d, h) : d \in { With(Base("green"), "MarketVolatility", Fresh("red")),
                            With(Base("green"), "DeepfakeShocks", Fresh("red")),
                            BothRed },
                    h \in {1, 4} }

NextWindow ==
    \E c \in WindowCycles :
        \/ GetStatus(c.d, c.dt)
        \/ MonitorRun(c.d, c.dt)

SpecWindow == Init /\ [][NextWindow]_vars

\* n has been red in every poll held from poll k on.
RedFrom(n, k) ==
    \A j \in k..Len(poll_history) :
        n \in DOMAIN poll_history[j].indicators /\ poll_history[j].indicators[n] = 2

\* The time of the poll in which n, red now, became red.
RedSince(n) ==
    LET first == CHOOSE k \in DOMAIN poll_history :
                     RedFrom(n, k) /\ \A j \in DOMAIN poll_history : RedFrom(n, j) => k <= j
    IN  poll_history[first].timestamp

\* C24: when MarketVolatility and DeepfakeShocks are both red but became red
\* more than window_hours apart, the Market+Deepfake rule does not force
\* phase 7.
C24_WindowBounds ==
    (/\ Cycled
     /\ Red("MarketVolatility")
     /\ Red("DeepfakeShocks")
     /\ \/ RedSince("MarketVolatility") - RedSince("DeepfakeShocks") > Hours(window_hours)
        \/ RedSince("DeepfakeShocks") - RedSince("MarketVolatility") > Hours(window_hours))
        => /\ latest.phase_result.critical_phase < 14
           /\ current_phase < 14

-----------------------------------------------------------------------------
(* Transition records *)

\* C25: a cycle that changes the phase appends exactly one transition record
\* (from the phase before, to the phase after, 'up' iff it rose), sets
\* last_phase_change to the cycle's time and returns changed; a cycle that
\* does not leaves the transition history and last_phase_change alone and
\* returns changed = false.
C25_TransitionRecorded ==
    [][ cycles' = cycles + 1 =>
          IF current_phase' # current_phase
          THEN /\ phase_history' =
                      Append(phase_history,
                             [ timestamp |-> now',
                               from_phase |-> current_phase,
                               to_phase |-> current_phase',
                               direction |-> IF current_phase' > current_phase
                                             THEN "up" ELSE "down" ])
               /\ last_phase_change' = now'
               /\ latest'.phase_result.changed
          ELSE /\ phase_history' = phase_history
               /\ last_phase_change' = last_phase_change
               /\ ~latest'.phase_result.changed ]_vars

\* A rise and a fall have been recorded as two transitions among three
\* cycles, the fall in the cycle just run.
C25_Witness ==
    /\ latest.cycle = 3
    /\ latest.phase_result.changed
    /\ Len(phase_history) = 2
    /\ phase_history[1].direction = "up"
    /\ phase_history[2] = [ timestamp |-> now, from_phase |-> latest.phase_before,
                            to_phase |-> current_phase, direction |-> "down" ]
    /\ phase_history[2].from_phase = phase_history[1].to_phase
    /\ last_phase_change = now

-----------------------------------------------------------------------------
(* The trend bonus: runs of five dashboard cycles in which JoblessClaims    *)
(* and StrikeTracker are green, amber or red together, so that the snapshot *)
(* three cycles back and the oldest snapshot differ.                        *)

MaxTrendCycles == 5

Both(level) ==
    With(With(Base("green"), "JoblessClaims", Fresh(level)), "StrikeTracker", Fresh(level))

TrendCycles == { Cycle(Both(level), 1) : level \in {"green", "amber", "red"} }

NextTrend ==
    \E c \in TrendCycles :
        \/ GetStatusWithin(c.d, c.dt, MaxTrendCycles)
        \/ MonitorRun(c.d, c.dt)

SpecTrend == Init /\ [][NextTrend]_vars

\* The members of domain d whose color in snapshot cur is higher than in old.
Risen(d, old, cur) ==
    { i \in Range(domains[d].indicators) :
          i \in DOMAIN old /\ i \in DOMAIN cur /\ cur[i] > old[i] }

\* The snapshot three cycles before the current one, or the oldest one held.
Lookback == history[Max(1, Len(history) - 3)]

\* The score of domain d in the last cycle before the trend bonus, in
\* 1/ScoreDen.
Unbonused(d) ==
    _calculate_domain_scores(_apply_pair_caps(_calculate_indicator_points(latest.indicators)))[d]

\* C26: on the first cycle no domain gets a bonus; afterwards a domain gets
\* +0.10, capped at 1.0, exactly when at least two of its members are higher
\* now than in the snapshot three cycles earlier (the oldest one when fewer
\* than three earlier snapshots exist).
C26_TrendLookback ==
    Cycled =>
        \A d \in DomainNames :
            latest.hopi_result.domain_scores[d] =
                IF Len(history) >= 2
                   /\ Cardinality(Risen(d, Lookback, history[Len(history)])) >= 2
                THEN Round3(Min(ScoreDen, Unbonused(d) + ScoreDen \div 10), ScoreDen, FALSE)
                ELSE Round3(Unbonused(d), ScoreDen, FALSE)

\* A fifth cycle in which jobs_labor gets the bonus against the snapshot of
\* the second cycle and would not get it against the oldest snapshot.
C26_Witness ==
    /\ latest.cycle = 5
    /\ Len(history) = 5
    /\ Cardinality(Risen("jobs_labor", history[2], history[5])) >= 2
    /\ Cardinality(Risen("jobs_labor", history[1], history[5])) = 0
    /\ latest.hopi_result.domain_scores["jobs_labor"]
           > Round3(Unbonused("jobs_labor"), ScoreDen, FALSE)

-----------------------------------------------------------------------------
(* Long runs: the dashboard polled with GuardMetros red whenever the phase  *)
(* is 0 and with every collector green, 72 hours on, whenever it is not, so *)
(* that from the third cycle on every cycle changes the phase and the three *)
(* histories run past their bounds.                                         *)

MaxRingCycles == 103

RingCycle ==
    IF current_phase = 0
    THEN Cycle(With(Base("green"), "GuardMetros", Fresh("red")), 1)
    ELSE Cycle(Base("green"), 72)

NextRing ==
    \/ GetStatusWithin(RingCycle.d, RingCycle.dt, MaxRingCycles)
    \/ MonitorRun(RingCycle.d, RingCycle.dt)

SpecRing == Init /\ [][NextRing]_vars

Last(q) == q[Len(q)]

\* q2 is q1 after one arrival into a buffer of n places: the arrival is last,
\* the entries before it keep their order, and the oldest is gone if q1 was
\* full.
Arrived(q1, q2, n) ==
    /\ Len(q2) >= 1
    /\ Len(q2) <= n
    /\ q2 = IF Len(q1) < n THEN Append(q1, Last(q2)) ELSE Append(Tail(q1), Last(q2))

\* C27: every cycle adds its snapshot to history and to poll_history, which
\* hold at most 10 entries, and a cycle that changes the phase adds its
\* transition to phase_history, which holds at most 100; each buffer keeps
\* the most recent entries in arrival order and drops the oldest when full.
C27_RingBuffers ==
    [][ cycles' = cycles + 1 =>
          /\ Arrived(history, history', 10)
          /\ Last(history') = Colors(latest'.indicators)
          /\ Arrived(poll_history, poll_history', 10)
          /\ Last(poll_history').timestamp = now'
          /\ Last(poll_history').hopi = latest'.hopi_result.hopi
          /\ IF current_phase' # current_phase
             THEN /\ Arrived(phase_history, phase_history', 100)
                  /\ Last(phase_history').timestamp = now'
             ELSE phase_history' = phase_history ]_vars

\* After 102 cycles the three buffers are full and the first snapshots and
\* the first transition (made in the first cycle) are gone.
C27_Witness ==
    /\ latest.cycle >= 102
    /\ Len(history) = 10
    /\ Len(poll_history) = 10
    /\ Len(phase_history) = 100
    /\ poll_history[1].timestamp > Hours(72) * 3
    /\ phase_history[1].timestamp > Hours(1)
    /\ phase_history[1].from_phase = 10
    /\ Last(phase_history).timestamp = now

-----------------------------------------------------------------------------
(* The targets the pipeline can produce *)

\* Every collector of the first r domains red, of the next a domains amber,
\* and the rest green (an indicator of two domains takes the higher color).
Painted(r, a) ==
    LET InDomains(i, from, to) ==
            \E k \in from..to : i \in Range(domains[DomainOrder[k]].indicators)
    IN  [ n \in Collectors |->
            IF InDomains(n, 1, r) THEN Fresh("red")
            ELSE IF InDomains(n, r + 1, r + a) THEN Fresh("amber")
            ELSE Fresh("green") ]

Paintings ==
    { Painted(r, a) : r \in 0..Len(DomainOrder), a \in 0..Len(DomainOrder) }

\* The manager state after a dashboard cycle on d at time t.
After(st, d, t) ==
    LET out == get_status(st, Stamp(d, t), t, Down)
    IN  [ confirmation_tracker |-> out.confirmation_tracker,
          history |-> out.history,
          current_phase |-> out.current_phase,
          phase_history |-> out.phase_history,
          poll_history |-> out.poll_history,
          last_phase_change |-> out.last_phase_change,
          phase_table |-> st.phase_table ]

TargetOf(st, d, t) == get_status(st, Stamp(d, t), t, Down).phase_result.target_phase

\* The targets of the next cycle and of the cycle an hour after it, over the
\* paintings.
PipelineTargets ==
    { TargetOf(State, d, now + Hours(1)) : d \in Paintings }
      \cup UNION { { TargetOf(After(State, d1, now + Hours(1)), d2, now + Hours(2)) :
                         d2 \in Paintings } : d1 \in Paintings }

\* C28: for each phase p in 4..9 the pipeline, started on the manager as
\* constructed, has a cycle whose target phase is p.
C28_BandsReachable ==
    cycles = 0 => \A p \in {8, 10, 12, 14, 16, 18} : p \in PipelineTargets

-----------------------------------------------------------------------------
(* Confirmation while a red persists.                                       *)

\* C29: a non-critical indicator confirmed in one cycle and red again in the
\* next, no more than one poll interval later, is confirmed in that cycle
\* too.
C29_StableConfirmation ==
    [][ \A n \in Collectors \ critical_indicators :
            ( /\ cycles' = cycles + 1
              /\ Cycled
              /\ Red(n)
              /\ latest.indicators[n].confirmed
              /\ n \in DOMAIN latest'.indicators
              /\ latest'.indicators[n].color = 2
              /\ now' - now <= ConfirmationWindow )
                => latest'.indicators[n].confirmed ]_vars

-----------------------------------------------------------------------------
(* A reading that goes missing: every collector fresh and green but         *)
(* JoblessClaims, which is red, green or missing, in polls of the same      *)
(* half hour or half an hour apart.                                         *)

GapCycles ==
    { [d |-> With(Base("green"), "JoblessClaims", r), dt |-> k] :
        r \in {Fresh("red"), Fresh("green"), None}, k \in 0..1 }

NextGap ==
    \E c \in GapCycles :
        \/ GetStatus(c.d, c.dt)
        \/ MonitorRun(c.d, c.dt)

SpecGap == Init /\ [][NextGap]_vars

\* C30: after a cycle every key of the confirmation tracker is a non-critical
\* indicator that was red in that cycle, and an indicator red in a cycle
\* whose reading was missing in the cycle before is at count 1, unconfirmed.
C30_TrackerOnlyCurrentReds ==
    Cycled =>
        /\ \A n \in DOMAIN confirmation_tracker :
               n \notin critical_indicators /\ Red(n)
        /\ latest.cycle >= 2 =>
               \A n \in Collectors \ critical_indicators :
                   (Red(n) /\ n \notin DOMAIN PreviousColors)
                       => /\ confirmation_tracker[n].count = 1
                          /\ ~latest.indicators[n].confirmed

====
